---- MODULE Spec2Model ----
(***************************************************************************)
(* A model of burn_out.multiprocess_worker (the supervised single-worker   *)
(* task channel) driven by one caller that rebinds its handle on every     *)
(* call, with burn_out.app.video_importer.video_worker as the function     *)
(* running inside each spawned process.                                    *)
(*                                                                         *)
(* Time is counted in poll slices of await_result (0.1 s): a poll of the   *)
(* result queue that finds it empty takes one slice.  The grace periods of *)
(* close_worker and cancel_worker (join(timeout=1.0)) may elapse at any    *)
(* moment at which the process is still alive.  terminate() and kill()     *)
(* send a signal; the process dies when the signal is delivered, which is  *)
(* a step of its own.                                                      *)
(***************************************************************************)
EXTENDS Integers, Sequences, FiniteSets, TLC

\* ---------------------------------------------------------------- bounds
MaxProcs == 2       \* processes spawned over a run (create_worker calls)
MaxTasks == 2       \* send_task calls over a run
MaxTimeout == 1     \* largest timeout argument, in poll slices
MaxCloses == 1      \* close_worker calls over a run that find the process alive
MaxTime == 6        \* the throttler's clock stops here
MaxFrames == 3      \* largest number of frames of a video
MaxLoops == 2       \* _play tasks that exist at the same time

\* ------------------------------------------------------------- constants
NoTimeout == -1     \* timeout=None: wait forever
Interval == 2       \* the throttler's interval, in ticks of its clock

\* Python's None on the task queue (the shutdown sentinel) and as a result.
Sentinel == [id |-> 0, func |-> "None"]
NoResult == [of |-> 0, val |-> "None"]

\* The tasks VideoImporter sends: ("extract_metadata", args), ("write_metadata", args).
TaskFuncs == {"extract_metadata", "write_metadata"}

\* Any value can be passed to send_task: also a task that is no 2-tuple or whose
\* first item is neither of the two names.
AnyTaskFuncs == TaskFuncs \cup {"other"}
Timeouts == {NoTimeout} \cup (0..MaxTimeout)

VARIABLES
    worker,     \* the WorkerHandle the caller holds
    proc,       \* pid -> the process: alive, pending signal, video_worker's locals
    queue,      \* queue id -> contents of that multiprocessing.Queue
    cpc,        \* where the caller is: idle, or inside await/close/cancel
    timeout,    \* await_result: its timeout argument
    elapsed,    \* await_result: slices since start_time
    nTasks,     \* tasks sent so far (the next task's id is nTasks + 1)
    nCloses,    \* sentinels put so far
    last,       \* the call the caller made last: pending or returned, and with what
    nSent,      \* tasks sent on the current handle
    nGot,       \* results await_result has returned on the current handle
    oneAtATime, \* no two send_task calls on the current handle without a call between
    \* create_throttler (burn_out.app.utils): the closure of one throttler
    now,                  \* time.time(), in ticks
    last_run_time,        \* when the function was executed last
    pending_task,         \* the task running _delayed_call, or None
    has_pending_request,  \* a request waits for the delayed call
    requested,            \* the func of the last request
    served,               \* that func has been executed since the request
    gap,                  \* time between the last execution and the one before
    \* VideoImporter (burn_out.app.video_importer); `worker` is its self.worker
    awaiting,             \* the _await_metadata_results tasks that have not ended
    called,               \* the _await_metadata_results that ended last
    \* BurnOutApp (burn_out.app.core): the playback state and its _play tasks
    video_playing,
    video_play_loop,
    video_current_frame,
    video_n_frames,
    play_ready,           \* _play tasks whose sleep is over (or that were just created)
    play_asleep,          \* _play tasks inside asyncio.sleep(1.0 / fps)
    advanced              \* changes of video_current_frame by _play in this frame period

vars == <<worker, proc, queue, cpc, timeout, elapsed, nTasks, nCloses, last,
          nSent, nGot, oneAtATime>>

tvars == <<now, last_run_time, pending_task, has_pending_request, requested,
           served, gap>>

ivars == <<awaiting, called>>

pvars == <<video_playing, video_play_loop, video_current_frame, video_n_frames,
           play_ready, play_asleep, advanced>>

allvars == <<vars, tvars, ivars, pvars>>

nProcs == Len(proc)
nQueues == Len(queue)

is_alive(p) == proc[p].alive

\* A queue that hands out the item put last first.
queue_put_front(q, i, x) == [q EXCEPT ![i] = <<x>> \o @]

\* Queue.put(x) and Queue.get(): first in, first out.
queue_put(q, i, x) == [q EXCEPT ![i] = Append(@, x)]
queue_get(q, i) == [q EXCEPT ![i] = Tail(@)]
queue_front(q, i) == Head(q[i])

\* ------------------------------------------------------------ create_worker
\* WorkerHandle(worker_func, task_queue, result_queue, process)
WorkerHandle(f, tq, rq, p) ==
    [worker_func |-> f, task_queue |-> tq, result_queue |-> rq, process |-> p]

\* A process that starts with metadata already loaded.
NewProcess_with_metadata(tq, rq) ==
    [alive |-> TRUE, sig |-> "none", pc |-> "get", task |-> Sentinel,
     tq |-> tq, rq |-> rq, original_metadata |-> "metadata"]

\* The process as Process(target=worker_func, args=(task_queue, result_queue))
\* starts it: alive, blocked in task_queue.get(), original_metadata = None.
NewProcess(tq, rq) ==
    [alive |-> TRUE, sig |-> "none", pc |-> "get", task |-> Sentinel,
     tq |-> tq, rq |-> rq, original_metadata |-> "None"]

\* A create_worker whose new task queue starts with what is waiting in the task
\* queue of the handle the caller holds.
create_worker_queues_inherit(q) == q \o <<q[worker.task_queue], (<<>>)>>

\* A create_worker that keeps the queues of the handle the caller holds.
create_worker_handle_same_queues(f) ==
    WorkerHandle(f, worker.task_queue, worker.result_queue, nProcs + 1)

\* create_worker: two new queues and a new process; the handle it returns.
create_worker_handle(f) == WorkerHandle(f, nQueues + 1, nQueues + 2, nProcs + 1)
create_worker_queues(q) == q \o <<(<<>>), (<<>>)>>
create_worker_procs(pr) == Append(pr, NewProcess(nQueues + 1, nQueues + 2))

\* A queue lives as long as something refers to it: the handle the caller holds,
\* or a process that is still running with it as an argument.  The contents of a
\* queue nobody refers to are gone.
referenced(i, w, pr) ==
    \/ i \in {w.task_queue, w.result_queue}
    \/ \E p \in 1..Len(pr) : pr[p].alive /\ i \in {pr[p].tq, pr[p].rq}

collect(q, w, pr) ==
    [i \in 1..Len(q) |-> IF referenced(i, w, pr) THEN q[i] ELSE <<>>]

\* The caller's last call.  Pending: the function entered.  Returned: also the
\* result (await_result), the id of the task (send_task), the return statement
\* or branch taken, and the process of the handle passed in.
Calling(op) ==
    [op |-> op, phase |-> "calling", result |-> NoResult, task |-> 0,
     why |-> "calling", given |-> worker.process]

Returned(op, result, task, why) ==
    [op |-> op, phase |-> "returned", result |-> result, task |-> task,
     why |-> why, given |-> worker.process]

Init ==
    /\ worker = WorkerHandle("video_worker", 1, 2, 1)
    /\ proc = <<NewProcess(1, 2)>>
    /\ queue = <<(<<>>), (<<>>)>>
    /\ cpc = "idle"
    /\ timeout = NoTimeout
    /\ elapsed = 0
    /\ nTasks = 0
    /\ nCloses = 0
    /\ last = [op |-> "create_worker", phase |-> "returned", result |-> NoResult,
               task |-> 0, why |-> "created", given |-> 1]
    /\ nSent = 0
    /\ nGot = 0
    /\ oneAtATime = TRUE
    /\ now = Interval
    /\ last_run_time = 0
    /\ pending_task = [state |-> "None", func |-> "None", due |-> 0]
    /\ has_pending_request = FALSE
    /\ requested = "None"
    /\ served = FALSE
    /\ gap = Interval
    /\ awaiting = {}
    /\ called = [result |-> "None", callbacks |-> 0]
    /\ video_playing = FALSE
    /\ video_play_loop = FALSE
    /\ video_current_frame = 0
    /\ video_n_frames = 0
    /\ play_ready = 0
    /\ play_asleep = 0
    /\ advanced = 0

\* The callers of this repository close a worker last (in a `finally:`, or when
\* the server or the client exits): after close_worker has been called on a
\* handle, the only call that follows is close_worker again.
Closed == last.op = "close_worker"

\* A call returns to the caller: it is idle again.
Return(r) ==
    /\ cpc' = "idle"
    /\ timeout' = NoTimeout
    /\ elapsed' = 0
    /\ last' = r

\* ---------------------------------------------------------------- send_task
\* A restart that keeps the queues of the dead handle for the new process.
send_task_handle_keeps_queues(w) ==
    IF ~is_alive(w.process)
    THEN WorkerHandle(w.worker_func, w.task_queue, w.result_queue, nProcs + 1)
    ELSE w

\* A send_task that always starts a new worker.
send_task_handle_always_restarts(w) == create_worker_handle(w.worker_func)

\* send_task without the restart: the handle it was given.
send_task_same_handle(w) == w

\* The handle send_task returns: the same one if its process is alive, a new
\* one from create_worker otherwise.
send_task_handle(w) ==
    IF ~is_alive(w.process) THEN create_worker_handle(w.worker_func) ELSE w

send_task(func) ==
    /\ cpc = "idle"
    /\ ~Closed
    /\ nTasks < MaxTasks
    /\ is_alive(worker.process) \/ nProcs < MaxProcs
    /\ LET w == send_task_handle(worker)
           restart == w # worker
           task == IF func = "None" THEN Sentinel
                   ELSE [id |-> nTasks + 1, func |-> func]
           q == IF restart THEN create_worker_queues(queue) ELSE queue
       IN  /\ worker' = w
           /\ proc' = IF restart THEN create_worker_procs(proc) ELSE proc
           /\ queue' = collect(queue_put(q, w.task_queue, task), w, proc')
           /\ nSent' = IF restart THEN 1 ELSE nSent + 1
           /\ nGot' = IF restart THEN 0 ELSE nGot
           /\ oneAtATime' = IF restart THEN TRUE
                            ELSE oneAtATime /\ last.op # "send_task"
           /\ last' = Returned("send_task", NoResult, task.id,
                               IF ~restart THEN "alive"
                               ELSE IF last.op = "await_result" /\ last.why = "dead"
                                    THEN "restarted_after_death"
                                    ELSE "restarted")
    /\ nTasks' = nTasks + 1
    /\ UNCHANGED <<cpc, timeout, elapsed, nCloses>>

\* ------------------------------------------------------------- await_result
\* The entry of await_result: start_time is taken when a timeout is given.
\* The call record notes the task whose result is first in the result queue at
\* this moment (0: the queue is empty).
await_result_start(t) ==
    /\ cpc = "idle"
    /\ ~Closed
    /\ cpc' = "await_is_alive"
    /\ timeout' = t
    /\ elapsed' = 0
    /\ last' = [Calling("await_result") EXCEPT
                   !.task = LET rq == worker.result_queue
                            IN  IF queue[rq] # <<>> THEN Head(queue[rq]).of ELSE 0]
    /\ UNCHANGED <<worker, proc, queue, nTasks, nCloses, nSent, nGot, oneAtATime>>

\* An await_result that terminates the worker when it gives up by timeout.
await_result_return_terminates(result, why) ==
    /\ Return(Returned("await_result", result, 0, why))
    /\ nGot' = IF result # NoResult THEN nGot + 1 ELSE nGot
    /\ proc' = IF why = "timeout"
               THEN [proc EXCEPT ![worker.process].sig = "term"]
               ELSE proc
    /\ UNCHANGED <<worker, nTasks, nCloses, nSent, oneAtATime>>

\* await_result returns `result` (NoResult for None) with the handle it got.
await_result_return(result, why) ==
    /\ Return(Returned("await_result", result, 0, why))
    /\ nGot' = IF result # NoResult THEN nGot + 1 ELSE nGot
    /\ UNCHANGED <<worker, proc, nTasks, nCloses, nSent, oneAtATime>>

\* The loop without its liveness check: `while True:`.
await_result_unmonitored ==
    /\ cpc = "await_is_alive"
    /\ cpc' = "await_get"
    /\ UNCHANGED <<worker, proc, queue, timeout, elapsed, nTasks, nCloses,
                   last, nSent, nGot, oneAtATime>>

\* The loop with a death that is raised to the caller instead of returned.
await_result_raises ==
    /\ cpc = "await_is_alive"
    /\ IF is_alive(worker.process)
       THEN /\ cpc' = "await_get"
            /\ UNCHANGED <<worker, proc, queue, timeout, elapsed, nTasks, nCloses,
                           last, nSent, nGot, oneAtATime>>
       ELSE /\ Return([Calling("await_result") EXCEPT !.phase = "raised", !.why = "dead"])
            /\ UNCHANGED <<worker, proc, queue, nTasks, nCloses, nSent, nGot,
                           oneAtATime>>

\* `while worker.process.is_alive():` and, behind the loop, `return worker, None`.
await_result_is_alive ==
    /\ cpc = "await_is_alive"
    /\ IF is_alive(worker.process)
       THEN /\ cpc' = "await_get"
            /\ UNCHANGED <<worker, proc, queue, timeout, elapsed, nTasks, nCloses,
                           last, nSent, nGot, oneAtATime>>
       ELSE /\ await_result_return(NoResult, "dead")
            /\ UNCHANGED queue

\* The loop without its timeout check: an empty poll always continues.
timeout_ignored(t, e) == FALSE

\* Whether the deadline has passed when a poll has come back empty:
\* `timeout is not None` and `time() - start_time > timeout`.
timed_out(t, e) == t # NoTimeout /\ e > t

\* result_queue.get(True, 0.1): a result, or Empty after one slice; on Empty the
\* timeout is compared with the time since start_time, and the loop continues.
await_result_get ==
    /\ cpc = "await_get"
    /\ LET rq == worker.result_queue
       IN  IF queue[rq] # <<>>
           THEN /\ queue' = queue_get(queue, rq)
                /\ await_result_return(queue_front(queue, rq), "result")
           ELSE /\ UNCHANGED queue
                /\ IF timed_out(timeout, elapsed + 1)
                   THEN await_result_return(NoResult, "timeout")
                   ELSE /\ cpc' = "await_is_alive"
                        /\ elapsed' = IF timeout = NoTimeout THEN 0 ELSE elapsed + 1
                        /\ UNCHANGED <<worker, proc, timeout, nTasks, nCloses, last,
                                       nSent, nGot, oneAtATime>>

\* result_queue.get(True, 0.1) fails with an exception that is not queue.Empty
\* (OSError on a broken pipe, EOFError, an unpicklable result).  `except
\* Exception:` takes it like Empty: the timeout is compared and the loop
\* continues.  The call record notes that the read raised.
await_result_get_raises ==
    /\ cpc = "await_get"
    /\ UNCHANGED queue
    /\ IF timed_out(timeout, elapsed + 1)
       THEN await_result_return(NoResult, "get_raised_timeout")
       ELSE /\ cpc' = "await_is_alive"
            /\ elapsed' = IF timeout = NoTimeout THEN 0 ELSE elapsed + 1
            /\ last' = [last EXCEPT !.why = "get_raised"]
            /\ UNCHANGED <<worker, proc, timeout, nTasks, nCloses, nSent, nGot,
                           oneAtATime>>

\* ------------------------------------------------------------- close_worker
\* Process.terminate() / Process.kill(): the signal is sent, not yet delivered.
terminate(pr, p) == [pr EXCEPT ![p].sig = "term"]
kill(pr, p) == [pr EXCEPT ![p].sig = "kill"]

\* close_worker without `if worker.process.is_alive():`: the sentinel is always
\* put and the process always joined.
close_worker_unguarded ==
    /\ cpc = "idle"
    /\ nCloses < MaxCloses
    /\ queue' = queue_put(queue, worker.task_queue, Sentinel)
    /\ nCloses' = nCloses + 1
    /\ cpc' = "close_join"
    /\ last' = Calling("close_worker")
    /\ UNCHANGED <<worker, proc, timeout, elapsed, nTasks, nSent, nGot, oneAtATime>>

\* close_worker up to the join: nothing when the process is dead, else the
\* sentinel is put and the caller waits in join(timeout=1.0).
close_worker ==
    /\ cpc = "idle"
    /\ IF is_alive(worker.process)
       THEN /\ nCloses < MaxCloses
            /\ queue' = queue_put(queue, worker.task_queue, Sentinel)
            /\ nCloses' = nCloses + 1
            /\ cpc' = "close_join"
            /\ last' = Calling("close_worker")
            /\ UNCHANGED <<timeout, elapsed>>
       ELSE /\ Return(Returned("close_worker", NoResult, 0, "dead"))
            /\ UNCHANGED <<queue, nCloses>>
    /\ UNCHANGED <<worker, proc, nTasks, nSent, nGot, oneAtATime>>

\* A close_worker that terminates after the join whether or not the process
\* has exited.
close_worker_join_terminates ==
    /\ cpc = "close_join"
    /\ proc' = terminate(proc, worker.process)
    /\ Return(Returned("close_worker", NoResult, 0, "terminated"))
    /\ UNCHANGED <<worker, queue, nTasks, nCloses, nSent, nGot, oneAtATime>>

\* The join has ended: the process exited, or the grace period is over and the
\* process, still alive, is terminated.
close_worker_join ==
    /\ cpc = "close_join"
    /\ IF is_alive(worker.process)
       THEN /\ proc' = terminate(proc, worker.process)
            /\ Return(Returned("close_worker", NoResult, 0, "terminated"))
       ELSE /\ UNCHANGED proc
            /\ Return(Returned("close_worker", NoResult, 0, "exited"))
    /\ UNCHANGED <<worker, queue, nTasks, nCloses, nSent, nGot, oneAtATime>>

\* ------------------------------------------------------------ cancel_worker
\* `return create_worker(worker.worker_func)`, after pr has been signalled.
cancel_worker_return(pr, why) ==
    /\ worker' = create_worker_handle(worker.worker_func)
    /\ proc' = create_worker_procs(pr)
    /\ queue' = collect(create_worker_queues(queue), worker', proc')
    /\ Return(Returned("cancel_worker", NoResult, 0, why))
    /\ nSent' = 0
    /\ nGot' = 0
    /\ oneAtATime' = TRUE
    /\ UNCHANGED <<nTasks, nCloses>>

\* cancel_worker up to the join: a live process is terminated and joined, a dead
\* one is replaced at once.
cancel_worker ==
    /\ cpc = "idle"
    /\ ~Closed
    /\ nProcs < MaxProcs
    /\ IF is_alive(worker.process)
       THEN /\ proc' = terminate(proc, worker.process)
            /\ cpc' = "cancel_join"
            /\ last' = Calling("cancel_worker")
            /\ UNCHANGED <<worker, queue, timeout, elapsed, nTasks, nCloses,
                           nSent, nGot, oneAtATime>>
       ELSE cancel_worker_return(proc, "dead")

\* The join has ended: the process is gone, or it is still alive after the
\* grace period and is killed; then the new worker is created.
cancel_worker_join ==
    /\ cpc = "cancel_join"
    /\ IF is_alive(worker.process)
       THEN cancel_worker_return(kill(proc, worker.process), "killed")
       ELSE cancel_worker_return(proc, "terminated")

\* ------------------------------------------------------------- video_worker
\* The process ends (the worker function returned, or a signal ended it).
exit_process(pr, p) ==
    [pr EXCEPT ![p].alive = FALSE, ![p].sig = "none", ![p].pc = "done",
               ![p].task = Sentinel, ![p].original_metadata = "None"]

\* task = task_queue.get(); `if task is None: break`.
video_worker_get(p) ==
    /\ is_alive(p)
    /\ proc[p].pc = "get"
    /\ queue[proc[p].tq] # <<>>
    /\ LET task == queue_front(queue, proc[p].tq)
       IN  /\ proc' = IF task = Sentinel
                      THEN exit_process(proc, p)
                      ELSE [proc EXCEPT ![p].pc = "run", ![p].task = task]
           /\ queue' = collect(queue_get(queue, proc[p].tq), worker, proc')
    /\ UNCHANGED <<worker, cpc, timeout, elapsed, nTasks, nCloses, last, nSent,
                   nGot, oneAtATime>>

\* What running a task may do: finish, or raise an Exception in _extract_metadata
\* / _write_metadata, or raise one in serialize (after original_metadata is set).
Outcomes == {"ok", "raises", "serialize_raises"}

\* Whether `outcome` can happen to `task`: serialize is called for an extraction
\* only, and a write with no metadata calls nothing that raises.
possible(task, meta, outcome) ==
    /\ outcome = "serialize_raises" => task.func = "extract_metadata"
    /\ outcome = "raises" => \/ task.func = "extract_metadata"
                             \/ task.func = "write_metadata" /\ meta # "None"

\* Whether video_worker has a branch for `task`: `if func_name ==
\* "extract_metadata":` / `elif func_name == "write_metadata":`, with no else.
answers(task) == task.func \in {"extract_metadata", "write_metadata"}

\* A video_worker that answers every write with "write_complete".
video_worker_result_always_complete(task, meta, outcome) ==
    IF outcome # "ok" /\ possible(task, meta, outcome)
    THEN [of |-> task.id, val |-> "error:"]
    ELSE IF task.func = "extract_metadata"
         THEN [of |-> task.id, val |-> "metadata"]
         ELSE [of |-> task.id, val |-> "write_complete"]

\* The result video_worker puts for `task`.
video_worker_result(task, meta, outcome) ==
    IF outcome # "ok" /\ possible(task, meta, outcome)
    THEN [of |-> task.id, val |-> "error:"]
    ELSE IF task.func = "extract_metadata"
         THEN [of |-> task.id, val |-> "metadata"]
         ELSE IF meta # "None"
              THEN [of |-> task.id, val |-> "write_complete"]
              ELSE [of |-> task.id, val |-> "write_error"]

\* The original_metadata video_worker holds after `task`.
video_worker_metadata(task, meta, outcome) ==
    IF task.func = "extract_metadata" /\ outcome \in {"ok", "serialize_raises"}
    THEN "metadata"
    ELSE meta

\* After a task the loop goes back to task_queue.get(): after its result was put,
\* and after `except Exception as e:` has put the error result.
video_worker_continue(pr, p, meta) ==
    [pr EXCEPT ![p].pc = "get", ![p].task = Sentinel, ![p].original_metadata = meta]

\* An `except Exception` that leaves the loop.
video_worker_except_break(pr, p, meta) == exit_process(pr, p)

\* `except Exception as e:` puts the error result and the loop goes on.
video_worker_except(pr, p, meta) == video_worker_continue(pr, p, meta)

\* The body of the loop for the task taken: one result is put, also when an
\* Exception is caught (`except Exception as e: result_queue.put(f"error: {e}")`).
video_worker_run(p, outcome) ==
    /\ is_alive(p)
    /\ proc[p].pc = "run"
    /\ possible(proc[p].task, proc[p].original_metadata, outcome)
    /\ LET task == proc[p].task
           meta == video_worker_metadata(task, proc[p].original_metadata, outcome)
       IN  /\ queue' = IF answers(task)
                       THEN queue_put(queue, proc[p].rq,
                                video_worker_result(task, proc[p].original_metadata,
                                                    outcome))
                       ELSE queue
           /\ proc' = IF outcome = "ok"
                      THEN video_worker_continue(proc, p, meta)
                      ELSE video_worker_except(proc, p, meta)
    /\ UNCHANGED <<worker, cpc, timeout, elapsed, nTasks, nCloses, last, nSent,
                   nGot, oneAtATime>>

\* An interruption handled like an Exception: an error result is put for the
\* task in progress and the loop goes on.
video_worker_interrupt_reports(p) ==
    /\ is_alive(p)
    /\ IF proc[p].pc = "run"
       THEN /\ queue' = queue_put(queue, proc[p].rq,
                                  [of |-> proc[p].task.id, val |-> "error:"])
            /\ proc' = video_worker_continue(proc, p, proc[p].original_metadata)
       ELSE /\ proc' = exit_process(proc, p)
            /\ queue' = collect(queue, worker, proc')
    /\ UNCHANGED <<worker, cpc, timeout, elapsed, nTasks, nCloses, last, nSent,
                   nGot, oneAtATime>>

\* `except (KeyboardInterrupt, SystemExit): break`: the loop is left, nothing is
\* put, the process ends.
video_worker_interrupt(p) ==
    /\ is_alive(p)
    /\ proc' = exit_process(proc, p)
    /\ queue' = collect(queue, worker, proc')
    /\ UNCHANGED <<worker, cpc, timeout, elapsed, nTasks, nCloses, last, nSent,
                   nGot, oneAtATime>>

\* The process is ended from outside: a pending terminate()/kill() is delivered,
\* or somebody else signals it.
process_killed(p) ==
    /\ is_alive(p)
    /\ proc' = exit_process(proc, p)
    /\ queue' = collect(queue, worker, proc')
    /\ UNCHANGED <<worker, cpc, timeout, elapsed, nTasks, nCloses, last, nSent,
                   nGot, oneAtATime>>

\* --------------------------------------------------------------------- Next
Caller ==
    \/ \E f \in TaskFuncs : send_task(f)
    \/ \E t \in Timeouts : await_result_start(t)
    \/ await_result_is_alive
    \/ await_result_get
    \/ close_worker
    \/ close_worker_join
    \/ cancel_worker
    \/ cancel_worker_join

Process(p) ==
    \/ video_worker_get(p)
    \/ \E o \in Outcomes : video_worker_run(p, o)
    \/ video_worker_interrupt(p)
    \/ process_killed(p)

Next ==
    /\ \/ Caller
       \/ \E p \in 1..nProcs : Process(p)
    /\ UNCHANGED <<tvars, ivars, pvars>>

Spec == Init /\ [][Next]_allvars

\* The same with a caller that sends any task, not only those of VideoImporter.
AnyNext ==
    \/ Next
    \/ (\E f \in AnyTaskFuncs \ TaskFuncs : send_task(f)) /\ UNCHANGED <<tvars, ivars, pvars>>

AnySpec == Init /\ [][AnyNext]_allvars

\* The same with a caller that passes any value at all as the task: also None.
ValueNext ==
    \/ AnyNext
    \/ send_task("None") /\ UNCHANGED <<tvars, ivars, pvars>>

ValueSpec == Init /\ [][ValueNext]_allvars

\* The event loop runs a pending await_result: its liveness check and its poll
\* are taken again and again.
\* close_worker is the caller's last call and no await_result follows it: the
\* runs in which await_result is pending are runs of the other calls.
AwaitNext ==
    /\ \/ \E f \in TaskFuncs : send_task(f)
       \/ \E t \in Timeouts : await_result_start(t)
       \/ await_result_is_alive
       \/ await_result_get
       \/ cancel_worker
       \/ cancel_worker_join
       \/ \E p \in 1..nProcs : Process(p)
    /\ UNCHANGED <<tvars, ivars, pvars>>

FairSpec ==
    /\ Init
    /\ [][AwaitNext]_allvars
    /\ WF_vars(await_result_is_alive /\ UNCHANGED <<tvars, ivars, pvars>>)
    /\ WF_vars(await_result_get /\ UNCHANGED <<tvars, ivars, pvars>>)

\* The same with a result queue whose read may fail.
FaultNext ==
    \/ Next
    \/ await_result_get_raises /\ UNCHANGED <<tvars, ivars, pvars>>

FaultSpec == Init /\ [][FaultNext]_allvars

\* ------------------------------------------------------------ VideoImporter
\* The synchronous methods of VideoImporter run on the event loop between the
\* steps of its _await_metadata_results tasks; `worker` is self.worker.

\* A test that takes every result that is not None for metadata.
is_not_None(result) == result # NoResult

\* `if result and result != "write_complete" and result != "write_error" and
\* not result.startswith("error:")`.
is_metadata_result(result) ==
    /\ result # NoResult
    /\ result.val # "write_complete"
    /\ result.val # "write_error"
    /\ result.val # "error:"

\* How often _await_metadata_results calls self.metadata_callback for `result`:
\* once for a metadata result that deserialize turns into something not None.
callbacks(result, deserialized) ==
    IF is_metadata_result(result) /\ deserialized THEN 1 ELSE 0

\* run(): send_task, then create_task(self._await_metadata_results()); the new
\* task evaluates await_result(self.worker) with the handle send_task returned.
\* `run` is the id of the extract task sent.
VideoImporter_run ==
    /\ send_task("extract_metadata")
    /\ awaiting' = awaiting \cup
                      {[worker |-> worker', run |-> nTasks + 1]}
    /\ UNCHANGED called

\* write(): send_task only; nothing awaits the result.
VideoImporter_write ==
    /\ send_task("write_metadata")
    /\ UNCHANGED ivars

\* cancel(): self.worker = cancel_worker(self.worker).
VideoImporter_cancel ==
    /\ \/ cancel_worker
       \/ cancel_worker_join
    /\ UNCHANGED ivars

\* close(): close_worker(self.worker).
VideoImporter_close ==
    /\ \/ close_worker
       \/ close_worker_join
    /\ UNCHANGED ivars

\* `self.worker, result = await await_result(self.worker)` has returned the
\* handle task `a` had passed in and `result`: self.worker is assigned, then
\* the callback is called or not, and the task ends.
await_metadata_results_return(a, result, deserialized) ==
    /\ worker' = a.worker
    /\ awaiting' = awaiting \ {a}
    /\ called' = [result |-> result.val,
                  callbacks |-> callbacks(result, deserialized)]

\* One round of the loop of await_result in task `a` (timeout is None): with the
\* process dead, `return worker, None`; else result_queue.get(True, 0.1) gives
\* a result, which is returned, or Empty, and the loop continues.
await_metadata_results(a) ==
    /\ cpc = "idle"
    /\ LET rq == a.worker.result_queue
       IN  IF ~is_alive(a.worker.process)
           THEN /\ await_metadata_results_return(a, NoResult, FALSE)
                /\ queue' = collect(queue, a.worker, proc)
           ELSE /\ queue[rq] # <<>>
                /\ \E deserialized \in BOOLEAN :
                      await_metadata_results_return(a, queue_front(queue, rq),
                                                    deserialized)
                /\ queue' = collect(queue_get(queue, rq), a.worker, proc)
    /\ UNCHANGED <<proc, cpc, timeout, elapsed, nTasks, nCloses, last, nSent,
                   nGot, oneAtATime>>

ImporterNext ==
    /\ \/ VideoImporter_run
       \/ VideoImporter_write
       \/ VideoImporter_cancel
       \/ VideoImporter_close
       \/ \E a \in awaiting : await_metadata_results(a)
       \/ \E p \in 1..nProcs : Process(p) /\ UNCHANGED ivars
    /\ UNCHANGED <<tvars, pvars>>

ImporterSpec == Init /\ [][ImporterNext]_allvars

\* --------------------------------------------------------------- BurnOutApp
\* Playback.  Time is counted in frame periods (the 1.0 / fps that _play
\* sleeps): a period is over when every _play task that was due in it has run.

\* open_file: a video with n frames is loaded and shown from frame 1.
open_file(n) ==
    /\ video_current_frame' = 1
    /\ video_n_frames' = n
    /\ UNCHANGED <<video_playing, video_play_loop, play_ready, play_asleep, advanced>>

\* on_menu_view_play toggles video_playing; on the change on_video_playing
\* creates a _play task if the new value is True.
on_menu_view_play ==
    /\ video_n_frames >= 1
    /\ video_playing' = ~video_playing
    /\ IF video_playing'
       THEN /\ play_ready + play_asleep < MaxLoops
            /\ play_ready' = play_ready + 1
       ELSE UNCHANGED play_ready
    /\ UNCHANGED <<video_play_loop, video_current_frame, video_n_frames,
                   play_asleep, advanced>>

\* on_menu_view_loop toggles video_play_loop.
on_menu_view_loop ==
    /\ video_play_loop' = ~video_play_loop
    /\ UNCHANGED <<video_playing, video_current_frame, video_n_frames,
                   play_ready, play_asleep, advanced>>

\* A body of _play that always goes to the next frame.
play_frame_unbounded(frame, n, loop) == frame + 1

\* The body of _play's loop: video_current_frame after it.
play_frame(frame, n, loop) ==
    IF frame < n THEN frame + 1 ELSE IF loop THEN 1 ELSE frame

\* The body of _play's loop: video_playing after it.
play_playing(frame, n, loop) == frame < n \/ loop

\* One round of a _play task that is due: `while self.state.video_playing:`
\* ends the task, or the body runs and the task sleeps for a frame period.
play ==
    /\ play_ready > 0
    /\ play_ready' = play_ready - 1
    /\ IF video_playing
       THEN /\ video_current_frame' =
                   play_frame(video_current_frame, video_n_frames, video_play_loop)
            /\ video_playing' =
                   play_playing(video_current_frame, video_n_frames, video_play_loop)
            /\ advanced' = IF video_playing' THEN advanced + 1 ELSE advanced
            /\ play_asleep' = play_asleep + 1
       ELSE UNCHANGED <<video_current_frame, video_playing, advanced, play_asleep>>
    /\ UNCHANGED <<video_play_loop, video_n_frames>>

\* A frame period is over: the sleeping _play tasks are due.
play_wake ==
    /\ play_ready = 0
    /\ play_asleep > 0 \/ advanced > 0
    /\ play_ready' = play_asleep
    /\ play_asleep' = 0
    /\ advanced' = 0
    /\ UNCHANGED <<video_playing, video_play_loop, video_current_frame, video_n_frames>>

PlayNext ==
    /\ \/ \E n \in 1..MaxFrames : open_file(n)
       \/ on_menu_view_play
       \/ on_menu_view_loop
       \/ play
       \/ play_wake
    /\ UNCHANGED <<vars, tvars, ivars>>

PlaySpec == Init /\ [][PlayNext]_allvars

\* The same for the runs in which no file is opened while the video plays.
\* The event loop resumes every _play task when its sleep is over.
PlayFairNext ==
    /\ \/ \E n \in 1..MaxFrames : ~video_playing /\ open_file(n)
       \/ on_menu_view_play
       \/ on_menu_view_loop
       \/ play
       \/ play_wake
    /\ UNCHANGED <<vars, tvars, ivars>>

PlayFairSpec ==
    /\ Init
    /\ [][PlayFairNext]_allvars
    /\ WF_allvars(play /\ UNCHANGED <<vars, tvars, ivars>>)
    /\ WF_allvars(play_wake /\ UNCHANGED <<vars, tvars, ivars>>)

\* ---------------------------------------------------------- create_throttler
\* The functions passed to throttled_call.
Funcs == {"f", "g"}

\* func() / await func(): the function is executed now.
execute(func) ==
    /\ gap' = now - last_run_time
    /\ last_run_time' = now
    /\ has_pending_request' = FALSE
    /\ served' = IF func = requested THEN TRUE ELSE served

\* throttled_call(func): executed at once when the interval has passed since
\* last_run_time; else the request is marked pending and, unless a delayed call
\* exists that is not done, one is created for `func` with the remaining delay.
throttled_call(func) ==
    LET time_since_last_run == now - last_run_time
    IN  IF time_since_last_run >= Interval
        THEN /\ gap' = time_since_last_run
             /\ last_run_time' = now
             /\ has_pending_request' = FALSE
             /\ requested' = func
             /\ served' = TRUE
             /\ UNCHANGED <<now, pending_task>>
        ELSE /\ has_pending_request' = TRUE
             /\ requested' = func
             /\ served' = FALSE
             /\ pending_task' =
                   IF pending_task.state \in {"None", "done"}
                   THEN [state |-> "sleeping", func |-> func,
                         due |-> now + (Interval - time_since_last_run)]
                   ELSE pending_task
             /\ UNCHANGED <<now, last_run_time, gap>>

\* _delayed_call after `await asyncio.sleep(delay)`: the event loop resumes it
\* at or after the time it is due.  With a pending request the function it was
\* created with is executed; an async function keeps the task running for a
\* while (is_async), a sync one has returned when the step ends.
delayed_call(is_async) ==
    /\ pending_task.state = "sleeping"
    /\ now >= pending_task.due
    /\ IF has_pending_request
       THEN /\ execute(pending_task.func)
            /\ pending_task' = [pending_task EXCEPT
                                  !.state = IF is_async THEN "running" ELSE "done"]
       ELSE /\ ~is_async
            /\ pending_task' = [pending_task EXCEPT !.state = "done"]
            /\ UNCHANGED <<last_run_time, has_pending_request, served, gap>>
    /\ UNCHANGED <<now, requested>>

\* `await func()` in _delayed_call returns: the task is done.
delayed_call_done ==
    /\ pending_task.state = "running"
    /\ pending_task' = [pending_task EXCEPT !.state = "done"]
    /\ UNCHANGED <<now, last_run_time, has_pending_request, requested, served, gap>>

\* Time passes.
Tick ==
    /\ now < MaxTime
    /\ now' = now + 1
    /\ UNCHANGED <<last_run_time, pending_task, has_pending_request, requested,
                   served, gap>>

ThrottleNext ==
    /\ \/ \E func \in Funcs : throttled_call(func)
       \/ \E is_async \in BOOLEAN : delayed_call(is_async)
       \/ delayed_call_done
       \/ Tick
    /\ UNCHANGED <<vars, ivars, pvars>>

ThrottleSpec == Init /\ [][ThrottleNext]_allvars

\* ---------------------------------------------------------------- claims
Awaiting == cpc \in {"await_is_alive", "await_get"}

\* A call of function op is entered or returns in this step.
Calls(op) == last' # last /\ last'.op = op
Returns(op) == Calls(op) /\ last'.phase = "returned"

\* C1: a pending await_result(handle, timeout=None) returns once the worker has
\* put a result on the result queue or has died (by interruption, signal or
\* kill, also while await_result is already polling): it never blocks for ever.
C1_AwaitNeverHangs ==
    (/\ Awaiting
     /\ timeout = NoTimeout
     /\ (queue[worker.result_queue] # <<>> \/ ~is_alive(worker.process)))
        ~> (cpc = "idle" /\ last.op = "await_result" /\ last.phase = "returned")

\* An await_result without timeout has passed its liveness check and is polling
\* an empty result queue when the worker, with a task outstanding, dies.
C1_Witness ==
    /\ cpc = "await_get"
    /\ timeout = NoTimeout
    /\ nSent > nGot
    /\ queue[worker.result_queue] = <<>>
    /\ ~is_alive(worker.process)

\* C2: when the process of the handle is dead while a task sent to it has no
\* result returned yet, the await_result in progress returns at its next step,
\* by its return statement and not by raising, the handle it was given and None
\* (whatever the result queue holds).
C2_DeathReturnsNone ==
    [][(/\ cpc = "await_is_alive"
        /\ ~is_alive(worker.process)
        /\ nSent > nGot
        /\ last' # last)
       => (/\ last' = Returned("await_result", NoResult, 0, "dead")
           /\ cpc' = "idle"
           /\ worker' = worker
           /\ nGot' = nGot)]_vars

\* An await_result has returned None for a dead process with a task outstanding
\* and nothing in the result queue.
C2_Witness ==
    /\ cpc = "idle"
    /\ last.op = "await_result"
    /\ last.phase = "returned"
    /\ last.why = "dead"
    /\ last.result = NoResult
    /\ nSent > nGot
    /\ queue[worker.result_queue] = <<>>
    /\ ~is_alive(worker.process)

\* The result of task T lies in the result queue of the handle: the worker has
\* processed T to completion.
Completed(T) ==
    \E i \in 1..Len(queue[worker.result_queue]) : queue[worker.result_queue][i].of = T

\* C3: the await_result that follows the send_task of a task T returns the result
\* computed for T, when the worker has processed T to completion and is alive,
\* after any earlier operations on the handle (here: even when no send_task of
\* the handle came directly after another one).
C3_AwaitReturnsOwnResult ==
    [][(/\ cpc = "await_get"
        /\ last' # last
        /\ oneAtATime
        /\ nSent > 0
        /\ is_alive(worker.process)
        /\ Completed(nTasks))
       => (last'.result # NoResult /\ last'.result.of = nTasks)]_vars

\* C4: the results come back in submission order: the i-th result that
\* await_result returns for a process is the result of the i-th task sent to that
\* process (nTasks - nSent tasks went to earlier processes), also when tasks are
\* sent without awaits in between.
C4_ResultsInSubmissionOrder ==
    (last.op = "await_result" /\ last.result # NoResult)
        => last.result.of = (nTasks - nSent) + nGot

\* Two tasks were sent one right after the other and two awaits have returned
\* their results, the second one last.
C4_Witness ==
    /\ ~oneAtATime
    /\ nSent = MaxTasks
    /\ nGot = MaxTasks
    /\ last.op = "await_result"
    /\ last.result.of = nTasks
    /\ is_alive(worker.process)

\* C5: the send_task that follows an await_result that returned None for a dead
\* process spawns a new process, alive and different from the dead one, with two
\* new queues, and puts the task on the new task queue (nothing else in it, the
\* new result queue empty); the first result await_result then returns on the
\* new handle is the result of that task.
C5_RestartAfterDeath ==
    [][/\ (last.op = "await_result" /\ last.why = "dead" /\ Calls("send_task"))
          => (/\ last'.phase = "returned"
              /\ worker'.process = nProcs + 1
              /\ worker'.process # worker.process
              /\ proc'[worker'.process].alive
              /\ proc' = Append(proc, proc'[worker'.process])
              /\ {worker'.task_queue, worker'.result_queue}
                     = {nQueues + 1, nQueues + 2}
              /\ proc'[worker'.process].tq = worker'.task_queue
              /\ proc'[worker'.process].rq = worker'.result_queue
              /\ queue'[worker'.task_queue]
                     = <<[id |-> last'.task, func |-> queue'[worker'.task_queue][1].func]>>
              /\ queue'[worker'.result_queue] = <<>>
              /\ nSent' = 1 /\ nGot' = 0)
       /\ (Returns("await_result") /\ nSent = 1 /\ nGot = 0
              /\ last'.result # NoResult)
          => last'.result.of = nTasks]_vars

\* send_task has restarted the worker after an await_result returned None for
\* the dead process: the new process is alive with the task in its queue.
C5_Witness ==
    /\ last.op = "send_task"
    /\ last.why = "restarted_after_death"
    /\ worker.process = last.given + 1
    /\ ~is_alive(last.given)
    /\ is_alive(worker.process)
    /\ Len(queue[worker.task_queue]) = 1

\* C6: await_result with a timeout does not wait beyond it: it never polls for
\* more slices than the timeout allows; the poll that comes back empty when the
\* timeout has elapsed makes it return the handle it was given and None (the
\* value a dead worker gives), the worker and its queues left as they are; and
\* every await_result with a timeout returns.
C6_TimeoutReturnsNone ==
    /\ []((Awaiting /\ timeout # NoTimeout) => elapsed <= timeout)
    /\ [][(/\ cpc = "await_get"
            /\ timeout # NoTimeout
            /\ elapsed = timeout
            /\ queue[worker.result_queue] = <<>>
            /\ cpc' # cpc)
           => (/\ cpc' = "idle"
               /\ last' = Returned("await_result", NoResult, 0, "timeout")
               /\ <<worker, proc, queue, nGot>>' = <<worker, proc, queue, nGot>>)]_vars
    /\ ((Awaiting /\ timeout # NoTimeout)
           ~> (cpc = "idle" /\ last.op = "await_result" /\ last.phase = "returned"))

\* An await_result has returned None by timeout while the worker, alive, is
\* still running the task.
C6_Witness ==
    /\ cpc = "idle"
    /\ last.op = "await_result"
    /\ last.why = "timeout"
    /\ last.result = NoResult
    /\ nSent > nGot
    /\ is_alive(worker.process)
    /\ proc[worker.process].pc = "run"
    /\ queue[worker.result_queue] = <<>>

\* C7: cancel_worker returns a handle bound to a process spawned by the call,
\* alive and different from the process of the handle passed in, with two new
\* empty queues, whether that process was idle, in the middle of a task or dead;
\* a task sent next goes to the new process, which is kept.
C7_CancelReturnsFreshWorker ==
    [][/\ Returns("cancel_worker")
          => (/\ cpc' = "idle"
              /\ worker'.process = nProcs + 1
              /\ worker'.process # worker.process
              /\ worker'.worker_func = worker.worker_func
              /\ worker'.task_queue = nQueues + 1
              /\ worker'.result_queue = nQueues + 2
              /\ Len(proc') = nProcs + 1
              /\ proc'[worker'.process]
                     = NewProcess(worker'.task_queue, worker'.result_queue)
              /\ queue'[worker'.task_queue] = <<>>
              /\ queue'[worker'.result_queue] = <<>>)
       /\ (/\ last.op = "cancel_worker"
           /\ Calls("send_task")
           /\ is_alive(worker.process))
          => (/\ worker' = worker
              /\ proc' = proc
              /\ Len(queue'[worker.task_queue]) = 1
              /\ queue'[worker.task_queue][1].id = last'.task
              /\ queue'[worker.result_queue] = <<>>)]_vars

\* cancel_worker has returned a new live worker after it terminated and then
\* killed a process that was in the middle of a task.
C7_Witness ==
    /\ cpc = "idle"
    /\ last.op = "cancel_worker"
    /\ last.why = "killed"
    /\ proc[last.given].pc = "run"
    /\ worker.process # last.given
    /\ is_alive(worker.process)
    /\ queue[worker.task_queue] = <<>>
    /\ queue[worker.result_queue] = <<>>

\* C8: close_worker on a handle whose process is dead returns at once, within
\* the call step: no sentinel is put, no join is waited for, and the handle, the
\* processes and the queues are left as they are; so is a second close_worker
\* on a handle already closed.
C8_CloseDeadIsNoOp ==
    [][(/\ cpc = "idle"
        /\ ~is_alive(worker.process)
        /\ Calls("close_worker"))
       => (/\ cpc' = "idle"
           /\ last' = Returned("close_worker", NoResult, 0, "dead")
           /\ UNCHANGED <<worker, proc, queue, nCloses, nTasks, nSent, nGot>>)]_vars

\* close_worker has been called a second time on the handle: the first call put
\* the sentinel, this one found the process dead.
C8_Witness ==
    /\ cpc = "idle"
    /\ last.op = "close_worker"
    /\ last.why = "dead"
    /\ nCloses = 1
    /\ ~is_alive(worker.process)

\* C9: after close_worker has returned, the process of the handle is not alive,
\* whatever the worker was doing when close_worker was called.
C9_ClosedWorkerNotAlive ==
    (last.op = "close_worker" /\ last.phase = "returned")
        => ~is_alive(worker.process)

\* C10: an Exception raised while video_worker processes a task is caught in
\* the worker: one error result for that task is put on the result queue, the
\* process stays alive and goes back to taking tasks, the queued tasks are left
\* in place, and nothing happens on the caller's side.
C10_TaskErrorIsAResult ==
    [][\A p \in 1..nProcs : \A o \in {"raises", "serialize_raises"} :
         video_worker_run(p, o)
            => (/\ queue'[proc[p].rq]
                      = Append(queue[proc[p].rq],
                               [of |-> proc[p].task.id, val |-> "error:"])
                /\ \A i \in 1..nQueues : i # proc[p].rq => queue'[i] = queue[i]
                /\ proc'[p].alive
                /\ proc'[p].pc = "get"
                /\ \A q \in 1..nProcs : q # p => proc'[q] = proc[q]
                /\ UNCHANGED <<worker, cpc, last, nGot>>)]_vars

\* The worker has answered a task with an error result and, still alive, the
\* task after it with its metadata.
C10_Witness ==
    /\ is_alive(worker.process)
    /\ Len(queue[worker.result_queue]) = 2
    /\ queue[worker.result_queue][1].val = "error:"
    /\ queue[worker.result_queue][2].val = "metadata"
    /\ queue[worker.result_queue][2].of = queue[worker.result_queue][1].of + 1

\* C11: a KeyboardInterrupt or SystemExit while video_worker is processing a
\* task makes it leave the loop: the process ends, no result is put on any
\* queue, no task is taken from any queue, the caller is not touched; and a
\* process that has ended takes no task and puts no result any more.
C11_InterruptEndsWorker ==
    [][\A p \in 1..nProcs :
         /\ (video_worker_interrupt(p) /\ proc[p].pc = "run")
               => (/\ ~proc'[p].alive
                   /\ proc'[p].pc = "done"
                   /\ \A i \in 1..nQueues : queue'[i] \in {queue[i], <<>>}
                   /\ queue'[worker.task_queue] = queue[worker.task_queue]
                   /\ queue'[worker.result_queue] = queue[worker.result_queue]
                   /\ \A q \in 1..nProcs : q # p => proc'[q] = proc[q]
                   /\ UNCHANGED <<worker, cpc, last, nGot>>)
         /\ ~proc[p].alive
               => (/\ proc'[p] = proc[p]
                   /\ ~video_worker_get(p)
                   /\ \A o \in Outcomes : ~video_worker_run(p, o))]_vars

\* The process of the handle has ended after it took the first of two tasks: the
\* second is still in the task queue and no result has been put.
C11_Witness ==
    /\ ~is_alive(worker.process)
    /\ proc[worker.process].pc = "done"
    /\ nSent = 2
    /\ nGot = 0
    /\ Len(queue[worker.task_queue]) = 1
    /\ queue[worker.task_queue][1].id = nTasks
    /\ queue[worker.result_queue] = <<>>

\* C12: for every task video_worker takes and finishes without interruption it
\* puts exactly one result on its result queue, whatever the task is.
C12_OneResultPerTask ==
    [][\A p \in 1..nProcs :
         (proc[p].alive /\ proc[p].pc = "run" /\ proc'[p].alive /\ proc'[p].pc = "get")
            => Len(queue'[proc[p].rq]) = Len(queue[proc[p].rq]) + 1]_vars

\* C13: at any time at most one of the processes spawned for the caller's handle
\* and its replacements is alive: when send_task or cancel_worker has returned a
\* replacement, the process of the handle it replaced is dead.
C13_AtMostOneAlive ==
    Cardinality({p \in 1..nProcs : proc[p].alive}) <= 1

\* C14: a process that has died stays dead and as it is; the handle the caller
\* holds changes only by being replaced, in a return of send_task (and then its
\* process was dead) or of cancel_worker, by a handle whose process and two
\* queues are created in that step and differ from all those created before.
C14_DeadHandleIsReplaced ==
    [][/\ \A p \in 1..nProcs : ~proc[p].alive => proc'[p] = proc[p]
       /\ worker' # worker
          => (/\ \/ Returns("send_task") /\ ~is_alive(worker.process)
                 \/ Returns("cancel_worker")
              /\ worker'.worker_func = worker.worker_func
              /\ worker'.process = nProcs + 1
              /\ Len(proc') = nProcs + 1
              /\ proc'[worker'.process].alive
              /\ worker'.task_queue > nQueues
              /\ worker'.result_queue > nQueues
              /\ worker'.task_queue # worker'.result_queue
              /\ Len(queue') = nQueues + 2
              /\ proc'[worker'.process].tq = worker'.task_queue
              /\ proc'[worker'.process].rq = worker'.result_queue
              /\ \A p \in 1..nProcs :
                    /\ proc'[p].tq = proc[p].tq
                    /\ proc'[p].rq = proc[p].rq
                    /\ {proc[p].tq, proc[p].rq}
                          \cap {worker'.task_queue, worker'.result_queue} = {})]_vars

\* send_task has replaced a handle whose process was dead (no await_result had
\* reported the death): the old process is still dead, the new one is alive with
\* queues of its own.
C14_Witness ==
    /\ last.op = "send_task"
    /\ last.why = "restarted"
    /\ ~is_alive(last.given)
    /\ worker.process # last.given
    /\ is_alive(worker.process)
    /\ {worker.task_queue, worker.result_queue}
          \cap {proc[last.given].tq, proc[last.given].rq} = {}

\* C15: the func of the last request gets executed: whenever no delayed call is
\* sleeping or running (nothing more will happen by itself), the func of the
\* last throttled_call has been executed, at that call or after it.
C15_LastRequestExecuted ==
    pending_task.state \in {"None", "done"} => (requested = "None" \/ served)

\* C16: two executions of a throttler, immediate or delayed, never start less
\* than `interval` apart.
C16_MinimumInterval ==
    gap >= Interval

\* C17: close_worker on a live worker first puts the sentinel at the end of the
\* task queue and sends no signal; when the join has ended it terminates the
\* process only if that is still alive, and returns normally either way: a
\* process that took the sentinel and exited during the join gets no signal.
C17_CloseIsGracefulFirst ==
    [][/\ (cpc = "idle" /\ is_alive(worker.process) /\ Calls("close_worker"))
          => (/\ cpc' = "close_join"
              /\ queue'[worker.task_queue]
                    = Append(queue[worker.task_queue], Sentinel)
              /\ queue'[worker.result_queue] = queue[worker.result_queue]
              /\ UNCHANGED <<worker, proc>>)
       /\ (cpc = "close_join" /\ cpc' # cpc)
          => (/\ cpc' = "idle"
              /\ last'.op = "close_worker"
              /\ last'.phase = "returned"
              /\ proc' = IF is_alive(worker.process)
                         THEN [proc EXCEPT ![worker.process].sig = "term"]
                         ELSE proc
              /\ last'.why = IF is_alive(worker.process)
                             THEN "terminated" ELSE "exited"
              /\ UNCHANGED <<worker, queue>>)]_vars

\* close_worker has returned after the worker took the sentinel and exited
\* during the join: no signal was sent to it.
C17_Witness ==
    /\ cpc = "idle"
    /\ last.op = "close_worker"
    /\ last.why = "exited"
    /\ nCloses = 1
    /\ ~is_alive(worker.process)
    /\ proc[worker.process].sig = "none"
    /\ queue[worker.task_queue] = <<>>

\* The tasks sent to the handle the caller holds now: those sent to the handles
\* it replaced have the ids up to nTasks - nSent.
OwnTask(id) == id > nTasks - nSent

\* C18: the tasks left in the task queue of a worker that died are never run by
\* a later process and never answered: the process of the caller's handle runs,
\* has waiting and has answered only tasks sent to that handle, await_result
\* returns only results of such tasks, and a replacement starts with a task
\* queue that holds nothing but the task being sent.
C18_QueuedTasksAreDiscarded ==
    /\ [](LET p == worker.process
          IN  /\ proc[p].pc = "run" => OwnTask(proc[p].task.id)
              /\ \A i \in 1..Len(queue[worker.task_queue]) :
                    queue[worker.task_queue][i] # Sentinel
                       => OwnTask(queue[worker.task_queue][i].id)
              /\ \A i \in 1..Len(queue[worker.result_queue]) :
                    OwnTask(queue[worker.result_queue][i].of)
              /\ (last.op = "await_result" /\ last.result # NoResult)
                    => OwnTask(last.result.of))
    /\ [][worker' # worker
           => (/\ \A i \in 1..Len(queue'[worker'.task_queue]) :
                     queue'[worker'.task_queue][i].id > nTasks
               /\ queue'[worker'.result_queue] = <<>>)]_vars

\* The worker died before it took either of two tasks sent to it; await_result
\* has returned None and the tasks are still in the queue of the dead worker.
C18_Witness ==
    /\ ~is_alive(worker.process)
    /\ Len(queue[worker.task_queue]) = 2
    /\ queue[worker.result_queue] = <<>>
    /\ last.op = "await_result"
    /\ last.why = "dead"
    /\ last.result = NoResult

\* A step of await_result: its entry, its liveness check or its poll.
AwaitStep ==
    \/ cpc = "idle" /\ cpc' = "await_is_alive"
    \/ Awaiting /\ cpc' # cpc

\* C19: await_result has no effect on the worker: no step of it changes the
\* handle or any process, nothing is put on or taken from the task queue, the
\* result queue loses at most the result returned, and what it returns (result,
\* None by death, None by timeout) comes with the handle it was given.
C19_AwaitLeavesWorkerAlone ==
    [][AwaitStep
       => (/\ worker' = worker
           /\ proc' = proc
           /\ \A i \in 1..nQueues : i # worker.result_queue => queue'[i] = queue[i]
           /\ Len(queue') = nQueues
           /\ IF cpc' = "idle" /\ last'.result # NoResult
              THEN /\ queue[worker.result_queue] # <<>>
                   /\ last'.result = Head(queue[worker.result_queue])
                   /\ queue'[worker.result_queue] = Tail(queue[worker.result_queue])
              ELSE queue'[worker.result_queue] = queue[worker.result_queue]
           /\ cpc' = "idle"
                => (/\ last'.op = "await_result"
                    /\ last'.why \in {"result", "dead", "timeout"}
                    /\ last'.given = worker'.process))]_vars

\* await_result has returned a result; the worker it was given is alive, has
\* no signal pending, and the next task is still waiting in its task queue.
C19_Witness ==
    /\ cpc = "idle"
    /\ last.op = "await_result"
    /\ last.why = "result"
    /\ last.given = worker.process
    /\ is_alive(worker.process)
    /\ proc[worker.process].sig = "none"
    /\ Len(queue[worker.task_queue]) = 1

\* The places (queue, position) where the task with this id is waiting.
Enqueued(q, pr, id) ==
    {<<p, j>> \in (1..Len(pr)) \X (1..MaxTasks + MaxCloses) :
        j <= Len(q[pr[p].tq]) /\ q[pr[p].tq][j].id = id}

\* C20: send_task on a handle whose process is alive returns that handle and
\* spawns nothing; on a handle whose process is not alive it returns a
\* replacement with one new process; either way the task is put once, at the end
\* of the task queue of the handle returned, and nowhere else.
C20_SendKeepsLiveHandle ==
    [][Returns("send_task")
       => (/\ IF is_alive(worker.process)
              THEN /\ worker' = worker
                   /\ proc' = proc
                   /\ Len(queue') = nQueues
              ELSE /\ worker' # worker
                   /\ Len(proc') = nProcs + 1
                   /\ \A p \in 1..nProcs : proc'[p] = proc[p]
                   /\ proc'[worker'.process].alive
           /\ last'.task = nTasks + 1
           /\ Enqueued(queue, proc, last'.task) = {}
           /\ Enqueued(queue', proc', last'.task)
                 = {<<worker'.process, Len(queue'[worker'.task_queue])>>}
           /\ Len(queue'[worker'.task_queue])
                 = IF is_alive(worker.process)
                   THEN Len(queue[worker.task_queue]) + 1
                   ELSE 1
           /\ queue'[worker'.result_queue]
                 = IF is_alive(worker.process)
                   THEN queue[worker.result_queue]
                   ELSE <<>>)]_vars

\* send_task has put a second task behind the first on the queue of the same
\* live worker.
C20_Witness ==
    /\ last.op = "send_task"
    /\ last.why = "alive"
    /\ last.given = worker.process
    /\ nProcs = 1
    /\ is_alive(worker.process)
    /\ Len(queue[worker.task_queue]) = 2
    /\ queue[worker.task_queue][2].id = last.task

C22_QueueFailurePropagates ==
    [][(/\ cpc = "await_get"
        /\ last' # last
        /\ last'.why \in {"get_raised", "get_raised_timeout"})
       => (last'.phase = "raised" /\ cpc' = "idle")]_vars

\* The number of shutdown sentinels among the items of a queue.
SentinelsIn(s) == Cardinality({k \in 1..Len(s) : s[k] = Sentinel})

\* C23: a shutdown sentinel arrives on a task queue only in the step in which
\* close_worker is entered with a live process, one per such step, and never in
\* a step of send_task, whatever it is given as the task; a process that takes
\* a sentinel from its queue is dead in the next state, and a dead process never
\* takes anything from a queue.
C23_SentinelOnlyFromClose ==
    [][/\ \A i \in 1..nQueues :
            SentinelsIn(queue'[i]) > SentinelsIn(queue[i]) =>
                /\ Calls("close_worker")
                /\ is_alive(worker.process)
                /\ i = worker.task_queue
                /\ SentinelsIn(queue'[i]) = SentinelsIn(queue[i]) + 1
       /\ \A i \in (nQueues + 1)..Len(queue') : SentinelsIn(queue'[i]) = 0
       /\ \A p \in 1..nProcs :
            /\ (/\ is_alive(p)
                /\ proc[p].pc = "get"
                /\ proc' # proc
                /\ queue[proc[p].tq] # <<>>
                /\ Head(queue[proc[p].tq]) = Sentinel
                /\ Len(queue'[proc[p].tq]) < Len(queue[proc[p].tq]))
               => ~proc'[p].alive
            /\ ~is_alive(p) => ~proc'[p].alive]_vars

\* C24: a result that is on the result queue is not lost: when the result queue
\* holds a result at the moment await_result is called, the call returns that
\* result and not None, also when the process has exited by then.
C24_QueuedResultIsReturned ==
    [][(/\ Awaiting
        /\ Returns("await_result")
        /\ last.task # 0)
       => (/\ last'.result = Head(queue[worker.result_queue])
           /\ last'.result.of = last.task
           /\ last'.result # NoResult)]_vars


\* Process p finishes the task it took in this step and waits for the next one.
Finishes(p) ==
    /\ is_alive(p)
    /\ proc[p].pc = "run"
    /\ proc'[p].alive
    /\ proc'[p].pc = "get"

\* C28: when video_worker finishes a write_metadata task it puts exactly one
\* result for it: "write_complete" only if this process holds metadata from an
\* extraction it ran before (or "error:" when writing them raised), and
\* "write_error" whenever it holds none: so a process spawned by cancel_worker or
\* by the restart in send_task answers "write_error" until it has extracted.
C28_WriteNeedsOwnMetadata ==
    [][\A p \in 1..nProcs :
         (Finishes(p) /\ proc[p].task.func = "write_metadata") =>
            LET rq == proc[p].rq
                r == queue'[rq][Len(queue'[rq])]
            IN  /\ queue'[rq] = Append(queue[rq], r)
                /\ r.of = proc[p].task.id
                /\ r.val \in {"write_complete", "write_error", "error:"}
                /\ r.val = "write_complete" => proc[p].original_metadata = "metadata"
                /\ proc[p].original_metadata = "None" <=> r.val = "write_error"
                /\ proc'[p].original_metadata = proc[p].original_metadata]_vars

\* A replacement process has answered a write with "write_error".
C28_Witness ==
    \E p \in 2..nProcs :
        /\ is_alive(p)
        /\ proc[p].original_metadata = "None"
        /\ queue[proc[p].rq] # <<>>
        /\ Head(queue[proc[p].rq]).val = "write_error"

\* C29: an _await_metadata_results that has ended called the metadata callback
\* at most once, and only if the result it awaited is a metadata payload: not
\* None, not "write_complete", not "write_error", not an "error:" string.
C29_CallbackOnlyForMetadata ==
    /\ called.callbacks \in {0, 1}
    /\ called.callbacks = 1 => called.result = "metadata"

\* An _await_metadata_results has ended with the callback called.
C29_Witness == called.callbacks = 1 /\ called.result = "metadata"

\* C25: when an _await_metadata_results task that was pending during cancel()
\* ends after it, while self.worker refers to the live replacement cancel() has
\* made, self.worker still refers to that replacement afterwards: the handle
\* the task had passed to await_result is not assigned over it.
C25_CancelKeepsReplacement ==
    [][\A a \in awaiting :
         (/\ a \notin awaiting'
          /\ last.op = "cancel_worker"
          /\ last.phase = "returned"
          /\ is_alive(worker.process))
            => worker' = worker]_<<vars, ivars>>

\* C26: the result an _await_metadata_results task takes from the result queue
\* is the result of the extract task sent by the run() that created the task,
\* not the result of a write or of another extraction.
C26_AwaitTakesOwnResult ==
    [][\A a \in awaiting :
         (a \notin awaiting' /\ is_alive(a.worker.process))
            => Head(queue[a.worker.result_queue]).of = a.run]_<<vars, ivars>>

\* C27: while the video plays there is one _play task, whatever sequence of
\* play and stop came before, and the _play tasks together change
\* video_current_frame at most once in a frame period.
C27_SinglePlayLoop ==
    /\ video_playing => play_ready + play_asleep <= 1
    /\ advanced <= 1

\* A round of a _play task.
PlayStep == play_ready' = play_ready - 1

====
